---- MODULE Spec2Model ----
(***************************************************************************)
(* Model of the secure API service notifier (src/qlv0_implement_a_sec.rs). *)
(*                                                                         *)
(* Every inbound POST /api/notify is handled by api_gateway, which reads   *)
(* the API-KEY header, calls api_key_authenticator (PgPool::connect, then  *)
(* SELECT COUNT( * ) FROM api_keys WHERE key = $1) and, when the count is  *)
(* positive, calls notifier_service (serde_json::from_str, encrypt_event,  *)
(* send_notification, HttpResponse::Ok).  Every fallible call is unwrapped *)
(* with .expect, so an Err panics the handling task: the request ends      *)
(* without a response.  Each request is its own task; the tasks interleave *)
(* at the calls, and the credential store is changed by its owner while    *)
(* requests are in flight.                                                 *)
(***************************************************************************)
EXTENDS Integers, Sequences, FiniteSets, TLC

\* ------------------------------------------------------------------------
\* Bounds of the model
\* ------------------------------------------------------------------------
NumReqs == 2        \* requests handled concurrently
MaxStoreOps == 1    \* updates the store's owner makes while requests run

Reqs == 1..NumReqs
Keys == {"K1", "K2"}
NoKey == "NoKey"                     \* headers().get("API-KEY") == None
Headers == Keys \cup {NoKey}
Uuids == {1, 2}                      \* identifiers (wire ids, Uuid::new_v4)
NoId == 0                            \* wire body without an "id" member
Salts == {0}                         \* salt handed to hash_password
Data == {0, 1}                       \* event data strings

\* Wire bodies: "{not-json", {"data": 0} and {"id": 1, "data": 1}.
Bodies == {[wellFormed |-> FALSE, id |-> NoId, data |-> 0],
           [wellFormed |-> TRUE, id |-> NoId, data |-> 0],
           [wellFormed |-> TRUE, id |-> 1, data |-> 1]}

\* struct Event { id: Uuid, data: String }
Event == [id : Uuids, data : Data]

\* Argon2 password hash of the data under a salt: a salted one-way digest
\* (the PHC string carries the salt and the digest, never the data).
HashPassword(data, salt) == [salt |-> salt, digest |-> (data + salt) % 2]

\* struct EncryptedEvent { id: Uuid, data: String }
EncryptedEvent == [id : Uuids, data : {HashPassword(d, s) : d \in Data, s \in Salts}]

\* Credential status of a key in the store (row absent, row with active flag).
Status == {"absent", "active", "inactive"}

Stages == {"authenticate", "decode", "encrypt", "deliver", "respond"}
NoResponse == 0
Responses == {200, 400, 401, 500}

VARIABLES
    store,            \* api_keys table: key -> status of its row
    storeOps,         \* number of updates made by the store's owner
    revoked,          \* keys that were active and have been revoked since
    pc,               \* position of each request's handling task
    header,           \* API-KEY header of each request (NoKey when missing)
    body,             \* wire body of each request
    response,         \* status code returned (NoResponse while none)
    stages,           \* stages the task has started, in order
    connects,         \* PgPool::connect calls made for the request
    queries,          \* store queries issued for the request
    lookup,           \* what the store held for the key when queried, <<>> while none
    is_authenticated, \* result of api_key_authenticator, <<>> while unknown
    event,            \* decoded Event, <<>> while none
    encrypted_event,  \* envelope built by encrypt_event, <<>> while none
    sinkCalls,        \* send_notification calls made for the request
    sinkOutcome       \* what the delivery sink did with the envelope

storeVars == <<store, storeOps, revoked>>
reqVars == <<pc, header, body, response, stages, connects, queries, lookup,
             is_authenticated, event, encrypted_event, sinkCalls, sinkOutcome>>
vars == <<store, storeOps, revoked, pc, header, body, response, stages,
          connects, queries, lookup, is_authenticated, event, encrypted_event,
          sinkCalls, sinkOutcome>>

\* ------------------------------------------------------------------------
\* Pure helpers
\* ------------------------------------------------------------------------

\* Rows of api_keys.
Rows == {[key |-> k, active |-> (store[k] = "active")] :
            k \in {x \in Keys : store[x] # "absent"}}

\* Config.api_key set in main: a key string like any other a request may
\* present; nothing in the handler reads it.
ConfigApiKey == "K2"

\* Variant of QueryCount that also accepts the configured key.
QueryCount_OrConfigKey(api_key) ==
    IF api_key = ConfigApiKey
    THEN 1
    ELSE Cardinality({row \in Rows : row.key = api_key})

\* Variant of QueryCount that drops the WHERE clause and counts every row.
QueryCount_AnyRow(api_key) == Cardinality(Rows)

\* SELECT COUNT( * ) FROM api_keys WHERE key = $1
QueryCount(api_key) == Cardinality({row \in Rows : row.key = api_key})

\* serde_json::from_str::<Event>: both members of Event are required.
ParseEvent(b) ==
    IF b.wellFormed /\ b.id # NoId
    THEN <<[id |-> b.id, data |-> b.data]>>
    ELSE <<>>

TypeOK ==
    /\ store \in [Keys -> Status]
    /\ storeOps \in 0..MaxStoreOps
    /\ revoked \subseteq Keys
    /\ pc \in [Reqs -> {"new", "connect", "query", "decode", "encrypt",
                        "deliver", "respond", "done", "panicked"}]
    /\ header \in [Reqs -> Headers]
    /\ body \in [Reqs -> Bodies]
    /\ response \in [Reqs -> Responses \cup {NoResponse}]
    /\ \A r \in Reqs : stages[r] \in Seq(Stages)
    /\ connects \in [Reqs -> 0..1]
    /\ queries \in [Reqs -> 0..1]
    /\ \A r \in Reqs : lookup[r] = <<>>
                        \/ (Len(lookup[r]) = 1
                            /\ lookup[r][1] \in [status : Status, revoked : BOOLEAN])
    /\ \A r \in Reqs : is_authenticated[r] \in {<<>>, <<TRUE>>, <<FALSE>>}
    /\ \A r \in Reqs : event[r] = <<>> \/ (Len(event[r]) = 1 /\ event[r][1] \in Event)
    /\ \A r \in Reqs : encrypted_event[r] = <<>>
                        \/ (Len(encrypted_event[r]) = 1
                            /\ encrypted_event[r][1] \in EncryptedEvent)
    /\ sinkCalls \in [Reqs -> 0..1]
    /\ sinkOutcome \in [Reqs -> {"none", "ok", "error"}]

Init ==
    /\ store = [k \in Keys |-> IF k = "K1" THEN "active" ELSE "absent"]
    /\ storeOps = 0
    /\ revoked = {}
    /\ pc = [r \in Reqs |-> "new"]
    /\ header = [r \in Reqs |-> NoKey]
    /\ body = [r \in Reqs |-> [wellFormed |-> FALSE, id |-> NoId, data |-> 0]]
    /\ response = [r \in Reqs |-> NoResponse]
    /\ stages = [r \in Reqs |-> <<>>]
    /\ connects = [r \in Reqs |-> 0]
    /\ queries = [r \in Reqs |-> 0]
    /\ lookup = [r \in Reqs |-> <<>>]
    /\ is_authenticated = [r \in Reqs |-> <<>>]
    /\ event = [r \in Reqs |-> <<>>]
    /\ encrypted_event = [r \in Reqs |-> <<>>]
    /\ sinkCalls = [r \in Reqs |-> 0]
    /\ sinkOutcome = [r \in Reqs |-> "none"]

\* ------------------------------------------------------------------------
\* The request handler, one action per call of the handling task
\* ------------------------------------------------------------------------

\* Variant of Receive that sends a request without the header to the
\* authenticator like any other instead of answering at once.
Receive_NoHeaderCheck(r, h, b) ==
    /\ pc[r] = "new"
    /\ header' = [header EXCEPT ![r] = h]
    /\ body' = [body EXCEPT ![r] = b]
    /\ pc' = [pc EXCEPT ![r] = "connect"]
    /\ UNCHANGED <<storeVars, response, stages, connects, queries, lookup,
                   is_authenticated, event, encrypted_event, sinkCalls,
                   sinkOutcome>>

\* api_gateway up to the match on the header: a request with header h and
\* body b arrives; without the header the gateway answers 401 at once.
Receive(r, h, b) ==
    /\ pc[r] = "new"
    /\ header' = [header EXCEPT ![r] = h]
    /\ body' = [body EXCEPT ![r] = b]
    /\ IF h = NoKey
       THEN /\ response' = [response EXCEPT ![r] = 401]
            /\ stages' = [stages EXCEPT ![r] = Append(@, "respond")]
            /\ pc' = [pc EXCEPT ![r] = "done"]
       ELSE /\ pc' = [pc EXCEPT ![r] = "connect"]
            /\ UNCHANGED <<response, stages>>
    /\ UNCHANGED <<storeVars, connects, queries, lookup, is_authenticated,
                   event, encrypted_event, sinkCalls, sinkOutcome>>

\* api_key_authenticator, PgPool::connect(...).await.expect(...): a failed
\* connection panics the task.
Connect(r, ok) ==
    /\ pc[r] = "connect"
    /\ connects' = [connects EXCEPT ![r] = @ + 1]
    /\ stages' = [stages EXCEPT ![r] = Append(@, "authenticate")]
    /\ pc' = [pc EXCEPT ![r] = IF ok THEN "query" ELSE "panicked"]
    /\ UNCHANGED <<storeVars, header, body, response, queries, lookup,
                   is_authenticated, event, encrypted_event, sinkCalls,
                   sinkOutcome>>

\* A request with the key of r has been admitted before, or the store holds
\* a row for the key.
CachedOrCounted(r) ==
    \/ QueryCount(header[r]) > 0
    \/ \E q \in Reqs \ {r} :
          header[q] = header[r] /\ is_authenticated[q] = <<TRUE>>

\* Variant of Query that keeps admitting a key once a request with that key
\* has been admitted (a shared cache of decisions).
Query_CachedDecision(r, ok) ==
    /\ pc[r] = "query"
    /\ queries' = [queries EXCEPT ![r] = @ + 1]
    /\ IF ok
       THEN /\ lookup' = [lookup EXCEPT ![r] =
                            <<[status |-> store[header[r]],
                               revoked |-> header[r] \in revoked]>>]
            /\ is_authenticated' = [is_authenticated EXCEPT ![r] =
                                      <<CachedOrCounted(r)>>]
            /\ IF CachedOrCounted(r)
               THEN /\ pc' = [pc EXCEPT ![r] = "decode"]
                    /\ UNCHANGED <<response, stages>>
               ELSE /\ response' = [response EXCEPT ![r] = 401]
                    /\ stages' = [stages EXCEPT ![r] = Append(@, "respond")]
                    /\ pc' = [pc EXCEPT ![r] = "done"]
       ELSE /\ pc' = [pc EXCEPT ![r] = "panicked"]
            /\ UNCHANGED <<lookup, is_authenticated, response, stages>>
    /\ UNCHANGED <<storeVars, header, body, connects, event,
                   encrypted_event, sinkCalls, sinkOutcome>>

\* api_key_authenticator, the query and `result.count > 0`, then the branch
\* of api_gateway on is_authenticated.  A query error or timeout panics.
Query(r, ok) ==
    /\ pc[r] = "query"
    /\ queries' = [queries EXCEPT ![r] = @ + 1]
    /\ IF ok
       THEN /\ lookup' = [lookup EXCEPT ![r] =
                            <<[status |-> store[header[r]],
                               revoked |-> header[r] \in revoked]>>]
            /\ is_authenticated' = [is_authenticated EXCEPT ![r] =
                                      <<QueryCount(header[r]) > 0>>]
            /\ IF QueryCount(header[r]) > 0
               THEN /\ pc' = [pc EXCEPT ![r] = "decode"]
                    /\ UNCHANGED <<response, stages>>
               ELSE /\ response' = [response EXCEPT ![r] = 401]
                    /\ stages' = [stages EXCEPT ![r] = Append(@, "respond")]
                    /\ pc' = [pc EXCEPT ![r] = "done"]
       ELSE /\ pc' = [pc EXCEPT ![r] = "panicked"]
            /\ UNCHANGED <<lookup, is_authenticated, response, stages>>
    /\ UNCHANGED <<storeVars, header, body, connects, event, encrypted_event,
                   sinkCalls, sinkOutcome>>

\* notifier_service, serde_json::from_str(...).expect("Invalid event").
Decode(r) ==
    /\ pc[r] = "decode"
    /\ stages' = [stages EXCEPT ![r] = Append(@, "decode")]
    /\ IF ParseEvent(body[r]) = <<>>
       THEN /\ pc' = [pc EXCEPT ![r] = "panicked"]
            /\ UNCHANGED event
       ELSE /\ event' = [event EXCEPT ![r] = ParseEvent(body[r])]
            /\ pc' = [pc EXCEPT ![r] = "encrypt"]
    /\ UNCHANGED <<storeVars, header, body, response, connects, queries,
                   lookup, is_authenticated, encrypted_event, sinkCalls,
                   sinkOutcome>>

\* Variant of Encrypt after which notifier_service answers without calling
\* send_notification.
Encrypt_NoDeliver(r, ok, salt, uuid) ==
    /\ pc[r] = "encrypt"
    /\ stages' = [stages EXCEPT ![r] = Append(@, "encrypt")]
    /\ IF ok
       THEN /\ encrypted_event' = [encrypted_event EXCEPT ![r] =
                  <<[id |-> uuid, data |-> HashPassword(event[r][1].data, salt)]>>]
            /\ pc' = [pc EXCEPT ![r] = "respond"]
       ELSE /\ pc' = [pc EXCEPT ![r] = "panicked"]
            /\ UNCHANGED encrypted_event
    /\ UNCHANGED <<storeVars, header, body, response, connects, queries,
                   lookup, is_authenticated, event, sinkCalls, sinkOutcome>>

\* encrypt_event: hash the data under a random salt (.expect on failure) and
\* build the EncryptedEvent under a new random Uuid.
Encrypt(r, ok, salt, uuid) ==
    /\ pc[r] = "encrypt"
    /\ stages' = [stages EXCEPT ![r] = Append(@, "encrypt")]
    /\ IF ok
       THEN /\ encrypted_event' = [encrypted_event EXCEPT ![r] =
                  <<[id |-> uuid, data |-> HashPassword(event[r][1].data, salt)]>>]
            /\ pc' = [pc EXCEPT ![r] = "deliver"]
       ELSE /\ pc' = [pc EXCEPT ![r] = "panicked"]
            /\ UNCHANGED encrypted_event
    /\ UNCHANGED <<storeVars, header, body, response, connects, queries,
                   lookup, is_authenticated, event, sinkCalls, sinkOutcome>>

\* Variant of Deliver that calls the sink again after a failed handoff.
Deliver_RetryOnError(r, outcome) ==
    /\ pc[r] = "deliver"
    /\ stages' = [stages EXCEPT ![r] =
                    IF sinkCalls[r] = 0 THEN Append(@, "deliver") ELSE @]
    /\ sinkCalls' = [sinkCalls EXCEPT ![r] = @ + 1]
    /\ sinkOutcome' = [sinkOutcome EXCEPT ![r] = outcome]
    /\ pc' = [pc EXCEPT ![r] = IF outcome = "error" /\ sinkCalls[r] = 0
                               THEN "deliver" ELSE "respond"]
    /\ UNCHANGED <<storeVars, header, body, response, connects, queries,
                   lookup, is_authenticated, event, encrypted_event>>

\* send_notification(encrypted_event).await: the envelope is handed to the
\* delivery sink; the function returns (), so what the sink did with it
\* (outcome) is not visible to notifier_service.
Deliver(r, outcome) ==
    /\ pc[r] = "deliver"
    /\ stages' = [stages EXCEPT ![r] = Append(@, "deliver")]
    /\ sinkCalls' = [sinkCalls EXCEPT ![r] = @ + 1]
    /\ sinkOutcome' = [sinkOutcome EXCEPT ![r] = outcome]
    /\ pc' = [pc EXCEPT ![r] = "respond"]
    /\ UNCHANGED <<storeVars, header, body, response, connects, queries,
                   lookup, is_authenticated, event, encrypted_event>>

\* Variant of Respond that marks the key of the answered request as used up
\* in the store.
Respond_ConsumesKey(r) ==
    /\ pc[r] = "respond"
    /\ stages' = [stages EXCEPT ![r] = Append(@, "respond")]
    /\ response' = [response EXCEPT ![r] = 200]
    /\ pc' = [pc EXCEPT ![r] = "done"]
    /\ store' = [store EXCEPT ![header[r]] = "inactive"]
    /\ UNCHANGED <<storeOps, revoked, header, body, connects, queries, lookup,
                   is_authenticated, event, encrypted_event, sinkCalls,
                   sinkOutcome>>

\* notifier_service, HttpResponse::Ok().finish().
Respond(r) ==
    /\ pc[r] = "respond"
    /\ stages' = [stages EXCEPT ![r] = Append(@, "respond")]
    /\ response' = [response EXCEPT ![r] = 200]
    /\ pc' = [pc EXCEPT ![r] = "done"]
    /\ UNCHANGED <<storeVars, header, body, connects, queries, lookup,
                   is_authenticated, event, encrypted_event, sinkCalls,
                   sinkOutcome>>

\* ------------------------------------------------------------------------
\* The credential store's owner (outside the handler) changes api_keys
\* ------------------------------------------------------------------------

InsertKey(k) ==
    /\ storeOps < MaxStoreOps
    /\ store[k] = "absent"
    /\ store' = [store EXCEPT ![k] = "active"]
    /\ revoked' = revoked \ {k}
    /\ storeOps' = storeOps + 1
    /\ UNCHANGED reqVars

DeactivateKey(k) ==
    /\ storeOps < MaxStoreOps
    /\ store[k] = "active"
    /\ store' = [store EXCEPT ![k] = "inactive"]
    /\ revoked' = revoked \cup {k}
    /\ storeOps' = storeOps + 1
    /\ UNCHANGED reqVars

RemoveKey(k) ==
    /\ storeOps < MaxStoreOps
    /\ store[k] # "absent"
    /\ store' = [store EXCEPT ![k] = "absent"]
    /\ revoked' = IF store[k] = "active" THEN revoked \cup {k} ELSE revoked
    /\ storeOps' = storeOps + 1
    /\ UNCHANGED reqVars

Next ==
    \/ \E r \in Reqs, h \in Headers, b \in Bodies : Receive(r, h, b)
    \/ \E r \in Reqs, ok \in BOOLEAN : Connect(r, ok)
    \/ \E r \in Reqs, ok \in BOOLEAN : Query(r, ok)
    \/ \E r \in Reqs : Decode(r)
    \/ \E r \in Reqs, ok \in BOOLEAN, salt \in Salts, uuid \in Uuids :
          Encrypt(r, ok, salt, uuid)
    \/ \E r \in Reqs, outcome \in {"ok", "error"} : Deliver(r, outcome)
    \/ \E r \in Reqs : Respond(r)
    \/ \E k \in Keys : InsertKey(k)
    \/ \E k \in Keys : DeactivateKey(k)
    \/ \E k \in Keys : RemoveKey(k)

Spec == Init /\ [][Next]_vars

\* ------------------------------------------------------------------------
\* Vocabulary of the properties
\* ------------------------------------------------------------------------

Pipeline == <<"authenticate", "decode", "encrypt", "deliver", "respond">>

Terminated(r) == pc[r] \in {"done", "panicked"}
Started(r, stage) == \E i \in 1..Len(stages[r]) : stages[r][i] = stage

\* The store was contacted for r and the lookup ended without an answer
\* (connection failure, query error or timeout).
StoreLookupFailed(r) == connects[r] > 0 /\ pc[r] # "query" /\ lookup[r] = <<>>

\* The store answered the lookup of r and held status s for the key.
LookupSaw(r, s) == lookup[r] # <<>> /\ lookup[r][1].status = s

\* The store answered the lookup of r after the key had been revoked.
LookupAfterRevocation(r) == lookup[r] # <<>> /\ lookup[r][1].revoked

Admitted(r) == is_authenticated[r] = <<TRUE>>
DecodeFailed(r) == Started(r, "decode") /\ event[r] = <<>>
EncryptFailed(r) == Started(r, "encrypt") /\ encrypted_event[r] = <<>>

\* ------------------------------------------------------------------------
\* Properties
\* ------------------------------------------------------------------------

\* C1: a request whose credential-store lookup failed (connection failure,
\* query error or timeout) is answered 401, no envelope is constructed for it
\* and the delivery sink is not called for it.
C1_StoreFailureRejectedWith401 ==
    \A r \in Reqs :
        StoreLookupFailed(r) =>
            /\ response[r] = 401
            /\ encrypted_event[r] = <<>>
            /\ sinkCalls[r] = 0

\* C2: a request without the API-KEY header is answered 401 and the store is
\* never contacted for it (no connection, no query), whatever its body and
\* whatever the store holds.
C2_MissingKeyNeverContactsStore ==
    \A r \in Reqs :
        (pc[r] # "new" /\ header[r] = NoKey) =>
            /\ response[r] = 401
            /\ pc[r] = "done"
            /\ connects[r] = 0
            /\ queries[r] = 0
            /\ lookup[r] = <<>>

\* C2 witness: a request without the header but with a well-formed body has
\* been answered while the store holds an active key.
C2_Witness ==
    \E r \in Reqs :
        /\ pc[r] = "done"
        /\ header[r] = NoKey
        /\ body[r].wellFormed
        /\ \E k \in Keys : store[k] = "active"

\* C3: a request whose key the store holds as inactive is not admitted: it
\* is answered 401 and never reaches notifier_service.
C3_InactiveKeyRejected ==
    \A r \in Reqs :
        LookupSaw(r, "inactive") =>
            /\ is_authenticated[r] = <<FALSE>>
            /\ response[r] = 401
            /\ ~Started(r, "decode")

\* C4: a request whose key the store reported absent is answered 401 with no
\* envelope and no sink call; and the sink is only ever called with the
\* envelope of a request that was admitted on a row found in the store.
C4_UnknownKeyNeverReachesSink ==
    \A r \in Reqs :
        /\ LookupSaw(r, "absent") =>
              /\ response[r] = 401
              /\ pc[r] = "done"
              /\ encrypted_event[r] = <<>>
              /\ sinkCalls[r] = 0
        /\ (sinkCalls[r] > 0 \/ encrypted_event[r] # <<>>) =>
              /\ Admitted(r)
              /\ ~LookupSaw(r, "absent")

\* C4 witness: one request was rejected for a key absent from the store while
\* another request's envelope reached the sink.
C4_Witness ==
    \E r1, r2 \in Reqs :
        /\ LookupSaw(r1, "absent")
        /\ pc[r1] = "done"
        /\ sinkCalls[r2] = 1

\* C5: an admitted request whose body does not parse into an Event is
\* answered 400, with no envelope and no sink call.
C5_MalformedBodyRejectedWith400 ==
    \A r \in Reqs :
        (Admitted(r) /\ DecodeFailed(r)) =>
            /\ response[r] = 400
            /\ encrypted_event[r] = <<>>
            /\ sinkCalls[r] = 0

\* C6: a request whose delivery-sink call failed is never answered 200, and
\* once it has ended its response is 500.
C6_SinkFailureIs500 ==
    \A r \in Reqs :
        sinkOutcome[r] = "error" =>
            /\ response[r] # 200
            /\ Terminated(r) => response[r] = 500

\* C7: 200 is returned only to a request that was admitted, decoded,
\* encrypted and successfully delivered; every other request that has ended
\* got 401 (auth), 400 (decode) or 500 (encryption or delivery).
C7_ResponseCodeMapping ==
    \A r \in Reqs :
        /\ response[r] = 200 =>
              /\ Admitted(r)
              /\ event[r] # <<>>
              /\ encrypted_event[r] # <<>>
              /\ sinkOutcome[r] = "ok"
        /\ (Terminated(r) /\ ~Admitted(r)) => response[r] = 401
        /\ (Terminated(r) /\ DecodeFailed(r)) => response[r] = 400
        /\ (Terminated(r) /\ (EncryptFailed(r) \/ sinkOutcome[r] = "error")) =>
              response[r] = 500

\* C8: within a request the stages run in the order authenticate, decode,
\* encrypt, deliver, respond: each starts only after the one before it
\* succeeded, none runs twice, and a 200 is preceded by all of them.
C8_StagesStrictlyOrdered ==
    \A r \in Reqs :
        /\ \A i \in 1..Len(stages[r]) :
              IF stages[r][i] = "respond"
              THEN i = Len(stages[r])
              ELSE i < Len(Pipeline) /\ stages[r][i] = Pipeline[i]
        /\ Started(r, "decode") => Admitted(r)
        /\ Started(r, "encrypt") => event[r] # <<>>
        /\ Started(r, "deliver") => encrypted_event[r] # <<>>
        /\ Started(r, "respond") <=> response[r] # NoResponse
        /\ response[r] = 200 => stages[r] = Pipeline

\* C8 witness: a request went through all five stages to a 200.
C8_Witness ==
    \E r \in Reqs :
        /\ response[r] = 200
        /\ stages[r] = Pipeline
        /\ sinkCalls[r] = 1

\* C9: a request whose store lookup was answered after its key had been
\* revoked (removed or marked inactive) is answered 401.
C9_RevocationImmediate ==
    \A r \in Reqs :
        LookupAfterRevocation(r) =>
            /\ response[r] = 401
            /\ ~Admitted(r)

\* C10: no request ends without a response: the handling task never panics,
\* and a request that has ended carries exactly one response out of
\* 200, 400, 401 and 500.
C10_NoStageAborts ==
    \A r \in Reqs :
        /\ pc[r] # "panicked"
        /\ Terminated(r) => response[r] \in Responses

\* C11: the envelope built by encrypt_event carries the id of the event it
\* was built from.
C11_EnvelopeKeepsEventId ==
    \A r \in Reqs :
        encrypted_event[r] # <<>> =>
            encrypted_event[r][1].id = event[r][1].id

\* C12: a request admitted on an active key whose body has data but no id is
\* decoded (with a generated id), is answered 200 and the sink receives
\* exactly one envelope for it, whose id differs from the id of every other
\* request's envelope.
C12_MissingIdIsGenerated ==
    \A r \in Reqs :
        (Admitted(r) /\ LookupSaw(r, "active")
            /\ body[r].wellFormed /\ body[r].id = NoId) =>
            /\ Started(r, "decode") => (event[r] # <<>> /\ event[r][1].id \in Uuids)
            /\ Terminated(r) =>
                  /\ response[r] = 200
                  /\ sinkCalls[r] = 1
                  /\ encrypted_event[r] # <<>>
                  /\ \A q \in Reqs \ {r} :
                        encrypted_event[q] # <<>> =>
                            encrypted_event[q][1].id # encrypted_event[r][1].id

\* C13: the delivery sink is called at most once for a request, also when
\* the call fails: after a failed call the task goes on to its response.
C13_SinkCalledAtMostOnce ==
    \A r \in Reqs :
        /\ sinkCalls[r] <= 1
        /\ sinkCalls[r] = 1 <=> Started(r, "deliver")
        /\ sinkOutcome[r] # "none" =>
              (sinkCalls[r] = 1 /\ pc[r] \in {"respond", "done"})

\* C13 witness: a request has ended after its single sink call failed.
C13_Witness ==
    \E r \in Reqs :
        /\ sinkOutcome[r] = "error"
        /\ sinkCalls[r] = 1
        /\ Terminated(r)

\* The authentication of r has failed: header missing, key unknown to the
\* store, key inactive in the store, or store lookup failed.
AuthFailed(r) ==
    \/ pc[r] # "new" /\ header[r] = NoKey
    \/ LookupSaw(r, "absent")
    \/ LookupSaw(r, "inactive")
    \/ StoreLookupFailed(r)

\* C14: two requests with the same body whose authentication failed, for
\* whichever reasons, have received the same response, the bare 401.
C14_AuthFailuresIndistinguishable ==
    \A r1, r2 \in Reqs :
        (AuthFailed(r1) /\ AuthFailed(r2) /\ body[r1] = body[r2]) =>
            /\ response[r1] = response[r2]
            /\ response[r1] = 401

\* ------------------------------------------------------------------------
\* encrypt_event on its own: every request stands at the call of
\* encrypt_event with an arbitrary decoded event
\* ------------------------------------------------------------------------

MaxCipherData == 2      \* event data values 0..MaxCipherData given to encrypt_event

CipherData == 0..MaxCipherData
CipherEvents == [id : Uuids, data : CipherData]
CipherEnvelopes ==
    [id : Uuids, data : {HashPassword(d, s) : d \in CipherData, s \in Salts}]

CipherInit ==
    /\ store = [k \in Keys |-> IF k = "K1" THEN "active" ELSE "absent"]
    /\ storeOps = 0
    /\ revoked = {}
    /\ pc = [r \in Reqs |-> "encrypt"]
    /\ header = [r \in Reqs |-> "K1"]
    /\ body = [r \in Reqs |-> [wellFormed |-> TRUE, id |-> 1, data |-> 1]]
    /\ response = [r \in Reqs |-> NoResponse]
    /\ stages = [r \in Reqs |-> <<"authenticate", "decode">>]
    /\ connects = [r \in Reqs |-> 1]
    /\ queries = [r \in Reqs |-> 1]
    /\ lookup = [r \in Reqs |-> <<[status |-> "active", revoked |-> FALSE]>>]
    /\ is_authenticated = [r \in Reqs |-> <<TRUE>>]
    /\ event \in [Reqs -> {<<e>> : e \in CipherEvents}]
    /\ encrypted_event = [r \in Reqs |-> <<>>]
    /\ sinkCalls = [r \in Reqs |-> 0]
    /\ sinkOutcome = [r \in Reqs |-> "none"]

CipherNext ==
    \E r \in Reqs, ok \in BOOLEAN, salt \in Salts, uuid \in Uuids :
        Encrypt(r, ok, salt, uuid)

CipherSpec == CipherInit /\ [][CipherNext]_vars

\* C15: round trip: there is a decrypt that gives back, for every envelope
\* encrypt_event has produced, the event it was produced from.
C15_RoundTrip ==
    \E decrypt \in [CipherEnvelopes -> CipherEvents] :
        \A r \in Reqs :
            encrypted_event[r] # <<>> =>
                decrypt[encrypted_event[r][1]] = event[r][1]

\* The response of the handler to r when it runs alone with r's header and
\* body, the store's answer to r's lookup and the sink's answer to r's
\* envelope (NoResponse where the task panics).
SoloResponse(r) ==
    IF header[r] = NoKey THEN 401
    ELSE IF lookup[r] = <<>> THEN NoResponse
    ELSE IF lookup[r][1].status = "absent" THEN 401
    ELSE IF ParseEvent(body[r]) = <<>> THEN NoResponse
    ELSE IF encrypted_event[r] = <<>> THEN NoResponse
    ELSE 200

\* Some step of the task handling r.
StepOf(r) ==
    \/ \E h \in Headers, b \in Bodies : Receive(r, h, b)
    \/ \E ok \in BOOLEAN : Connect(r, ok)
    \/ \E ok \in BOOLEAN : Query(r, ok)
    \/ Decode(r)
    \/ \E ok \in BOOLEAN, salt \in Salts, uuid \in Uuids : Encrypt(r, ok, salt, uuid)
    \/ \E outcome \in {"ok", "error"} : Deliver(r, outcome)
    \/ Respond(r)

\* C16: whatever the other requests do, a request that has ended got the
\* response it gets when run alone, its envelope is built from its own body
\* only, and a request that has not ended can always take its next step.
C16_RequestsIsolated ==
    \A r \in Reqs :
        /\ Terminated(r) => response[r] = SoloResponse(r)
        /\ event[r] # <<>> => event[r] = ParseEvent(body[r])
        /\ encrypted_event[r] # <<>> =>
              /\ encrypted_event[r][1].id \in Uuids
              /\ \E s \in Salts :
                    encrypted_event[r][1].data = HashPassword(event[r][1].data, s)
        /\ ~Terminated(r) => ENABLED StepOf(r)

\* C16 witness: one request is suspended in its store lookup while another
\* request with the same key, received later, has been answered 200.
C16_Witness ==
    \E r1, r2 \in Reqs :
        /\ r1 # r2
        /\ header[r1] = header[r2]
        /\ pc[r1] = "query"
        /\ response[r2] = 200

\* C17: a request whose encryption failed is answered 500 and the sink is
\* not called for it; delivery starts only once the envelope exists.
C17_EncryptionFailureIs500 ==
    \A r \in Reqs :
        /\ EncryptFailed(r) =>
              /\ response[r] = 500
              /\ pc[r] = "done"
              /\ sinkCalls[r] = 0
        /\ Started(r, "deliver") => encrypted_event[r] # <<>>

\* C18: no step of a request's handling task changes the credential store:
\* the stored keys and their active flags are the same after it as before.
C18_HandlerNeverWritesStore ==
    [][(\E r \in Reqs : pc'[r] # pc[r]) => store' = store]_vars

\* C18 witness: one request was admitted and answered 200, another was
\* rejected, and the store still holds what it held at the start.
C18_Witness ==
    \E r1, r2 \in Reqs :
        /\ response[r1] = 200
        /\ response[r2] = 401 /\ header[r2] # NoKey
        /\ storeOps = 0
        /\ store = [k \in Keys |-> IF k = "K1" THEN "active" ELSE "absent"]

\* C19: a request that carries the header is admitted exactly when its
\* store query was answered and found a row for the presented key (active
\* or not), whatever its body, the configured key and the other requests.
C19_AdmittedIffRowFound ==
    \A r \in Reqs :
        header[r] # NoKey =>
            /\ Admitted(r) <=> (LookupSaw(r, "active") \/ LookupSaw(r, "inactive"))
            /\ is_authenticated[r] = <<FALSE>> <=> LookupSaw(r, "absent")
            /\ lookup[r] = <<>> => is_authenticated[r] = <<>>

\* C19 witness: a request presenting the configured key, which has no row in
\* the store, was rejected while a request with the same body and a stored
\* key was admitted.
C19_Witness ==
    \E r1, r2 \in Reqs :
        /\ header[r1] = ConfigApiKey
        /\ LookupSaw(r1, "absent")
        /\ response[r1] = 401
        /\ Admitted(r2)
        /\ body[r1] = body[r2]

====
